---- MODULE Spec2Model ----
(***************************************************************************)
(* A model of examples/cover_bot.py: the loop that asks a completion       *)
(* service for a test of a target function, measures the coverage of the   *)
(* composed module test_mod.py and prompts again with the missing lines.   *)
(*                                                                         *)
(* Texts are modelled as sequences of lines, a line as a sequence of       *)
(* tokens.  The completion service is an opaque function: its response is  *)
(* drawn from a fixed set of small test programs (Responses).  The texts   *)
(* held by the program variables are named by handles (the target's name,  *)
(* the response's name); Source and ResponseLines give their lines.        *)
(***************************************************************************)
EXTENDS Integers, Sequences, FiniteSets, TLC

\* Largest attempt budget explored (the script sets n_coverage_attempts).
MaxBudget == 3

----------------------------------------------------------------------------
(* The functions to be tested (cover_bot.py lines 162-185).                *)

SrcLine(s, isStmt) == [src |-> s, stmt |-> isStmt]

\* inspect.getsource(some_function): ten lines, each ended by a newline.
some_function ==
  << SrcLine("def some_function(x, y):", TRUE),
     SrcLine("    if x < 0:", TRUE),
     SrcLine("        z = y - x", TRUE),
     SrcLine("    else:", FALSE),
     SrcLine("        z = y + x", TRUE),
     SrcLine("", FALSE),
     SrcLine("    if z > y:", TRUE),
     SrcLine("        return True", TRUE),
     SrcLine("", FALSE),
     SrcLine("    return False", TRUE) >>

\* inspect.getsource(some_other_function): twelve lines.
some_other_function ==
  << SrcLine("def some_other_function(x: int, y: int) -> bool:", TRUE),
     SrcLine("    z = 0", TRUE),
     SrcLine("    for i in range(x):", TRUE),
     SrcLine("        if x < 3:", TRUE),
     SrcLine("            z = y - x", TRUE),
     SrcLine("        else:", FALSE),
     SrcLine("            z = y + x", TRUE),
     SrcLine("", FALSE),
     SrcLine("    if z > y:", TRUE),
     SrcLine("        return True", TRUE),
     SrcLine("", FALSE),
     SrcLine("    return False", TRUE) >>

target_code_examples == << "some_function", "some_other_function" >>

\* The source text named by a target_code handle.
Source(tc) ==
  IF tc = "some_function" THEN some_function ELSE some_other_function

\* target_code.count("\n"): every line of the source ends with a newline.
CountNewlines(tc) == Len(Source(tc))

\* The lines of the function body (numbered within the source text) that a
\* call fn(x, y) executes.
Trace(fn, x, y) ==
  IF fn = "some_function"
  THEN LET z == IF x < 0 THEN y - x ELSE y + x
       IN  {2} \cup (IF x < 0 THEN {3} ELSE {5}) \cup {7}
               \cup (IF z > y THEN {8} ELSE {10})
  ELSE LET z == IF x <= 0 THEN 0 ELSE IF x < 3 THEN y - x ELSE y + x
       IN  {2, 3} \cup (IF x <= 0 THEN {} ELSE IF x < 3 THEN {4, 5} ELSE {4, 7})
                  \cup {9} \cup (IF z > y THEN {10} ELSE {12})

----------------------------------------------------------------------------
(* Lines of program text.  toks is the text after the indentation; op says *)
(* what the line does when Python runs it.                                 *)

Op(k) == [k |-> k, f |-> "", x |-> 0, y |-> 0]

Line(indent, toks, op) == [indent |-> indent, toks |-> toks, op |-> op]

BlankLine == Line(0, <<>>, Op("blank"))

\* "def <name>():"
DefLine(name) ==
  Line(0, <<"def", " ">> \o name \o <<"(", ")", ":">>, Op("def"))

\* "    f(x, y)"
CallLine(f, x, y) ==
  Line(1, <<f, "(", "x", ",", " ", "y", ")">>,
       [k |-> "call", f |-> f, x |-> x, y |-> y])

AssertFalseLine == Line(1, <<"assert", " ", "False">>, Op("assert"))
RaiseLine == Line(1, <<"raise", " ", "ValueError", "(", ")">>, Op("raise"))
PassLine == Line(1, <<"pass">>, Op("pass"))
ImportLine == Line(0, <<"import", " ", "nosuchmodule">>, Op("import"))
\* Text that is not Python: compiling a module that holds it fails.
ProseLine == Line(0, <<"Sorry", ",", " ", "I", " ", "cannot", ".">>, Op("invalid"))
BrokenLine == Line(1, <<"assert", " ", "(">>, Op("invalid"))

\* The text of a line as tokens, indentation included.
LineToks(l) == [j \in 1..l.indent |-> "    "] \o l.toks

test_some_function == <<"test", "_some_function">>
test_a == <<"test", "_a">>
test_b == <<"test", "_b">>

----------------------------------------------------------------------------
(* The completion service.  It is opaque to the program: a response is any *)
(* of the following texts.  A response written for a target calls that     *)
(* target; "" is the empty string.                                         *)

ResponseKinds ==
  {"PROSE", "SYNTAX", "IMPORT", "RAISE", "PARTIAL", "BOTH", "FULL",
   "TWO", "TWORAISE", "STALE"}

Response(kind, fn) == [kind |-> kind, fn |-> fn]

\* The empty string, the initial value of test_code.
EmptyString == Response("", "")

\* The lines of a response text (str.splitlines).
ResponseLines(r) ==
  CASE r.kind = "" -> <<>>
    [] r.kind = "PROSE" -> << ProseLine >>
    [] r.kind = "SYNTAX" -> << DefLine(test_some_function), BrokenLine >>
    [] r.kind = "IMPORT" ->
         << ImportLine, BlankLine, DefLine(test_some_function), PassLine >>
    [] r.kind = "RAISE" ->
         << DefLine(test_some_function), CallLine(r.fn, 1, 0), RaiseLine >>
    [] r.kind = "PARTIAL" ->
         IF r.fn = "some_function"
         THEN \* only the x < 0 branch; the assertion fails before line 4
              << DefLine(test_some_function), CallLine(r.fn, -1, 0),
                 AssertFalseLine, PassLine >>
         ELSE << DefLine(test_some_function), CallLine(r.fn, 1, 0) >>
    [] r.kind = "BOTH" ->
         \* both branches of some_function, never its last line
         << DefLine(test_some_function), CallLine(r.fn, -1, 0),
            CallLine(r.fn, 1, 0) >>
    [] r.kind = "FULL" ->
         IF r.fn = "some_function"
         THEN << DefLine(test_some_function), CallLine(r.fn, -1, 0),
                 CallLine(r.fn, 0, 0) >>
         ELSE << DefLine(test_some_function), CallLine(r.fn, 1, 0),
                 CallLine(r.fn, 3, 0) >>
    [] r.kind = "TWO" ->
         \* two tests; the assertion of the first one fails
         IF r.fn = "some_function"
         THEN << DefLine(test_a), CallLine(r.fn, -1, 0), AssertFalseLine,
                 DefLine(test_b), CallLine(r.fn, 0, 0) >>
         ELSE << DefLine(test_a), CallLine(r.fn, 1, 0), AssertFalseLine,
                 DefLine(test_b), CallLine(r.fn, 3, 0) >>
    [] r.kind = "TWORAISE" ->
         \* two tests; the first one raises ValueError
         << DefLine(test_a), RaiseLine,
            DefLine(test_b), CallLine(r.fn, 1, 0) >>
    [] r.kind = "STALE" ->
         \* a test of some_other_function that also calls some_function,
         \* which its own module text does not define
         << DefLine(test_some_function), CallLine("some_function", -1, 0),
            CallLine(r.fn, 1, 0), CallLine(r.fn, 3, 0) >>

\* The responses the service may give to a prompt about target tc.
Responses(tc) ==
  { Response(k, tc) :
      k \in IF tc = "some_function" THEN ResponseKinds \ {"STALE", "TWO"}
                                    ELSE ResponseKinds \ {"BOTH", "TWORAISE"} }

----------------------------------------------------------------------------
(* collect_test_functions (lines 55-83).                                   *)

\* s.startswith(p)
StartsWith(s, p) == Len(s) >= Len(p) /\ SubSeq(s, 1, Len(p)) = p

\* The position of the first sep in s at or after from, 0 when there is none.
RECURSIVE Find(_, _, _)
Find(s, sep, from) ==
  IF from > Len(s) THEN 0
  ELSE IF s[from] = sep THEN from
  ELSE Find(s, sep, from + 1)

\* s.split(sep): the pieces of s between the occurrences of sep.
RECURSIVE Split(_, _)
Split(s, sep) ==
  LET p == Find(s, sep, 1)
  IN  IF p = 0 THEN << s >>
      ELSE << SubSeq(s, 1, p - 1) >> \o Split(SubSeq(s, p + 1, Len(s)), sep)

IsSpace(t) == t \in {" ", "    "}

\* s.strip()
RECURSIVE Strip(_)
Strip(s) ==
  IF s = <<>> THEN s
  ELSE IF IsSpace(s[1]) THEN Strip(Tail(s))
  ELSE IF IsSpace(s[Len(s)]) THEN Strip(SubSeq(s, 1, Len(s) - 1))
  ELSE s

\* line.split("def")[1].split("(")[0].strip()
TestFunctionName(toks) == Strip(Split(Split(toks, "def")[2], "(")[1])

\* The loop of lines 74-80 with the leading whitespace of a line trimmed
\* before the test.
RECURSIVE CollectFrom_trimmed(_)
CollectFrom_trimmed(lines) ==
  IF lines = <<>> THEN <<>>
  ELSE LET toks == Strip(LineToks(Head(lines)))
       IN  (IF StartsWith(toks, <<"def", " ", "test">>)
            THEN << TestFunctionName(toks) >>
            ELSE <<>>) \o CollectFrom_trimmed(Tail(lines))

RECURSIVE CollectFrom(_)
CollectFrom(lines) ==
  IF lines = <<>> THEN <<>>
  ELSE LET toks == LineToks(Head(lines))
       IN  (IF StartsWith(toks, <<"def", " ", "test">>)
            THEN << TestFunctionName(toks) >>
            ELSE <<>>) \o CollectFrom(Tail(lines))

collect_test_functions(string) == CollectFrom(ResponseLines(string))

----------------------------------------------------------------------------
(* Composing the module text (lines 128-150).                              *)

\* create_call(name): dedent of the five-line template; it starts with a
\* newline, so its first line is empty.
create_call(name) ==
  << BlankLine,
     Line(0, <<"try", ":">>, Op("try")),
     Line(1, name \o <<"(", ")">>, [k |-> "invoke", f |-> name, x |-> 0, y |-> 0]),
     Line(0, <<"except", " ", "AssertionError", ":">>, Op("except")),
     Line(1, <<"pass">>, Op("handler")) >>

\* "\n".join(create_call(fname) for fname in names)
RECURSIVE run_statements(_)
run_statements(names) ==
  IF names = <<>> THEN <<>>
  ELSE create_call(Head(names)) \o run_statements(Tail(names))

\* A line of the target inside the composed module.
TargetLine(tc, j) ==
  Line(0, << Source(tc)[j].src >>,
       [k |-> IF Source(tc)[j].stmt THEN "target" ELSE "blank",
        f |-> tc, x |-> j, y |-> 0])

\* The f-string c1: an empty first line, the target code (which ends with a
\* newline), two empty lines, the response, an empty line, the run
\* statements and a last line of four spaces.  "\n".join of no statement is
\* the empty string, which still makes one (empty) line.
c1(tc, response, names) ==
  << BlankLine >>
  \o [j \in 1..Len(Source(tc)) |-> TargetLine(tc, j)]
  \o << BlankLine, BlankLine >>
  \o (IF ResponseLines(response) = <<>> THEN << BlankLine >>
      ELSE ResponseLines(response))
  \o << BlankLine >>
  \o (IF names = <<>> THEN << BlankLine >> ELSE run_statements(names))
  \o << Line(1, <<>>, Op("blank")) >>

----------------------------------------------------------------------------
(* Running the composed module: what importlib does with test_mod.py.      *)
(* A namespace maps a name to the function object bound to it; a function  *)
(* object keeps the line numbers its code had in the file it was compiled  *)
(* from.                                                                   *)

TargetObject(tc, defLine) ==
  [kind |-> "target", fn |-> tc, base |-> defLine - 1, body |-> <<>>]

TestObject(body) == [kind |-> "test", fn |-> "", base |-> 0, body |-> body]

\* The name a def statement binds: what stands between "def" and "(".
DeclaredName(toks) == Strip(Split(SubSeq(toks, 2, Len(toks)), "(")[1])

\* The last line of the block that starts after line k.
RECURSIVE BlockEnd(_, _)
BlockEnd(lines, k) ==
  IF k < Len(lines) /\ lines[k + 1].indent >= 1 /\ lines[k + 1].op.k # "blank"
  THEN BlockEnd(lines, k + 1)
  ELSE k

\* The body of the function defined at line k: its lines with their numbers.
BodyOf(lines, k) ==
  [j \in 1..(BlockEnd(lines, k) - k) |-> [ln |-> k + j, op |-> lines[k + j].op]]

\* Running a function body from statement j on: the exception that leaves
\* it ("none" when it returns) and the lines executed.
RECURSIVE RunBody(_, _, _, _)
RunBody(body, j, ns, executed) ==
  IF j > Len(body) THEN [exc |-> "none", executed |-> executed]
  ELSE LET e == body[j]
           ex == executed \cup {e.ln}
       IN  CASE e.op.k = "call" ->
                  IF << e.op.f >> \notin DOMAIN ns
                  THEN [exc |-> "NameError", executed |-> ex]
                  ELSE LET g == ns[<< e.op.f >>]
                       IN  IF g.kind = "target"
                           THEN RunBody(body, j + 1, ns,
                                  ex \cup { g.base + t : t \in Trace(g.fn, e.op.x, e.op.y) })
                           ELSE [exc |-> "TypeError", executed |-> ex]
             [] e.op.k = "assert" -> [exc |-> "AssertionError", executed |-> ex]
             [] e.op.k = "raise" -> [exc |-> "ValueError", executed |-> ex]
             [] OTHER -> RunBody(body, j + 1, ns, ex)

\* name(): a call without arguments of what the namespace binds to name.
CallObject(name, ns) ==
  IF name \notin DOMAIN ns THEN [exc |-> "NameError", executed |-> {}]
  ELSE IF ns[name].kind = "target" THEN [exc |-> "TypeError", executed |-> {}]
  ELSE RunBody(ns[name].body, 1, ns, {})

\* A bare except clause: every exception is suppressed.
Suppressed_any(exc) == TRUE

\* except AssertionError: the exceptions the guard of create_call suppresses.
Suppressed(exc) == exc = "AssertionError"

\* The module-level statements from line k on.  st holds the exception
\* raised so far, the lines executed and the module's namespace.
RECURSIVE ExecModule(_, _, _)
ExecModule(lines, k, st) ==
  IF k > Len(lines) \/ st.exc # "none" THEN st
  ELSE
    LET l == lines[k]
        done == [st EXCEPT !.executed = @ \cup {k}]
    IN  CASE l.indent = 0 /\ l.op.k = "target" /\ l.op.x = 1 ->
               ExecModule(lines, k + 1,
                 [done EXCEPT !.ns = (<< l.op.f >> :> TargetObject(l.op.f, k)) @@ @])
          [] l.indent = 0 /\ l.op.k = "def" ->
               ExecModule(lines, BlockEnd(lines, k) + 1,
                 [done EXCEPT !.ns = (DeclaredName(l.toks) :> TestObject(BodyOf(lines, k))) @@ @])
          [] l.indent = 0 /\ l.op.k = "import" ->
               [done EXCEPT !.exc = "ImportError"]
          [] l.indent = 0 /\ l.op.k = "try" ->
               \* try: name() except AssertionError: pass
               LET r == CallObject(lines[k + 1].op.f, st.ns)
                   ran == st.executed \cup {k, k + 1} \cup r.executed
               IN  IF r.exc = "none"
                   THEN ExecModule(lines, k + 4, [st EXCEPT !.executed = ran])
                   ELSE IF Suppressed(r.exc)
                   THEN ExecModule(lines, k + 4,
                          [st EXCEPT !.executed = ran \cup {k + 2, k + 3}])
                   ELSE [st EXCEPT !.executed = ran \cup {k + 2}, !.exc = r.exc]
          [] OTHER -> ExecModule(lines, k + 1, st)

\* The lines coverage.py counts as statements of the file.
Statements(lines) == { k \in 1..Len(lines) : lines[k].op.k # "blank" }

\* sorted(S) for a set of integers.
RECURSIVE Sorted(_)
Sorted(S) ==
  IF S = {} THEN <<>>
  ELSE LET m == CHOOSE a \in S : \A b \in S : a <= b
       IN  << m >> \o Sorted(S \ {m})

\* sys.modules without test_mod.
NoModule == [loaded |-> FALSE, ns |-> <<>>]

\* get_missing_coverage_lines(code) (lines 30-52) with sys.modules as
\* modules: the exception it raises ("none" when it returns), the value it
\* returns, the lines the Coverage object recorded and sys.modules after it.
\* A module that does not compile raises SyntaxError before any statement
\* runs.  A first import that fails leaves no module behind; a reload runs
\* the new code in the namespace of the module already loaded.
get_missing_coverage_lines(code, modules) ==
  LET compiles == \A k \in 1..Len(code) : code[k].op.k # "invalid"
      start == [exc |-> "none", executed |-> {},
                ns |-> IF modules.loaded THEN modules.ns ELSE <<>>]
      run == IF compiles THEN ExecModule(code, 1, start)
             ELSE [start EXCEPT !.exc = "SyntaxError"]
  IN  [exc |-> run.exc,
       missing |-> IF run.exc = "none"
                   THEN Sorted(Statements(code) \ run.executed) ELSE <<>>,
       executed |-> run.executed,
       modules |-> IF run.exc = "none" \/ modules.loaded
                   THEN [loaded |-> TRUE, ns |-> run.ns]
                   ELSE NoModule]

----------------------------------------------------------------------------
(* get_missing_lines_for_completion (lines 125-156).                       *)

\* str(ln)
str(ln) == ToString(ln)

\* int(s) for the decimal numeral of a line number.
int(s) == CHOOSE n \in 0..99 : ToString(n) = s

\* The filter without its bound: every missing line is kept.
KeepLine_unfiltered(ln, target_code) == TRUE

\* The filter of line 155: ln < target_code.count("\n").
KeepLine(ln, target_code) == ln < CountNewlines(target_code)

\* The file test_mod.py holds the text composed from these three.
Composed(tc, response, names) ==
  [target_code |-> tc, response |-> response, names |-> names]

NoFile == Composed("", EmptyString, <<>>)

FileLines(file) == c1(file.target_code, file.response, file.names)

\* The function with the test for names made after the analysis: the
\* module is composed, written and run even without a name.
get_missing_lines_for_completion_late(target_code, response, file, modules) ==
  LET test_function_names == collect_test_functions(response)
      composed == Composed(target_code, response, test_function_names)
      r == get_missing_coverage_lines(FileLines(composed), modules)
      Keep(ln) == KeepLine(ln, target_code)
      kept == SelectSeq(r.missing, Keep)
  IN  IF test_function_names = <<>>
      THEN [exc |-> "SyntaxError", analysed |-> TRUE, lines |-> <<>>,
            missing |-> <<>>, executed |-> r.executed, file |-> composed,
            modules |-> r.modules]
      ELSE [exc |-> r.exc, analysed |-> TRUE,
            lines |-> [j \in 1..Len(kept) |-> str(kept[j])],
            missing |-> r.missing, executed |-> r.executed,
            file |-> composed, modules |-> r.modules]

\* The exception the call raises ("none" when it returns), the list it
\* returns, and what it leaves in test_mod.py, sys.modules and the Coverage
\* object.  Without a test function name it raises SyntaxError before
\* anything is composed.
get_missing_lines_for_completion(target_code, response, file, modules) ==
  LET test_function_names == collect_test_functions(response)
      composed == Composed(target_code, response, test_function_names)
      r == get_missing_coverage_lines(FileLines(composed), modules)
      Keep(ln) == KeepLine(ln, target_code)
      kept == SelectSeq(r.missing, Keep)
  IN  IF test_function_names = <<>>
      THEN [exc |-> "SyntaxError", analysed |-> FALSE, lines |-> <<>>,
            missing |-> <<>>, executed |-> {}, file |-> file, modules |-> modules]
      ELSE [exc |-> r.exc, analysed |-> TRUE,
            lines |-> [j \in 1..Len(kept) |-> str(kept[j])],
            missing |-> r.missing, executed |-> r.executed,
            file |-> composed, modules |-> r.modules]

----------------------------------------------------------------------------
(* The prompts (lines 86-122).  A prompt is the template with the values   *)
(* substituted into it.                                                    *)

\* lines | join(" and ")
RECURSIVE Join(_)
Join(ls) ==
  IF Len(ls) <= 1 THEN ls
  ELSE << Head(ls), " and " >> \o Join(Tail(ls))

construct_prompt(target_code) ==
  [template |-> "full coverage", target_code |-> target_code,
   lines |-> <<>>, test_code |-> EmptyString]

construct_prompt_test_code(target_code, test_code, ls) ==
  [template |-> "coverage for lines", target_code |-> target_code,
   lines |-> Join(ls), test_code |-> test_code]

\* query() passing the follow-up template an empty previous test.
query_without_test_code(target_code, test_code, ls) ==
  IF test_code = EmptyString
  THEN construct_prompt(target_code)
  ELSE construct_prompt_test_code(target_code, EmptyString, ls)

\* query() choosing the template by the missing lines, not the test code.
query_by_lines(target_code, test_code, ls) ==
  IF ls = <<>>
  THEN construct_prompt(target_code)
  ELSE construct_prompt_test_code(target_code, test_code, ls)

\* The prompt query() builds.
query(target_code, test_code, ls) ==
  IF test_code = EmptyString
  THEN construct_prompt(target_code)
  ELSE construct_prompt_test_code(target_code, test_code, ls)

----------------------------------------------------------------------------
(* The testing loop (lines 191-223).                                       *)

VARIABLES
  pc,                   \* where the script is
  n_coverage_attempts,  \* the attempt budget
  t,                    \* how many of target_code_examples the outer loop took
  target_code, target_dialog, test_code, lines, i,
  dialogs,
  test_mod_py,          \* the file test_mod.py
  sys_modules,          \* sys.modules["test_mod"]
  raw_missing,          \* sorted(analysis.missing) of the last analysis
  cov_executed,         \* the lines recorded by the last Coverage object
  status,               \* how the attempts of the current target ended
  completer_calls,      \* calls of the completer for the current target
  exception,            \* the exception that ended the script, if any
  string,               \* collect_test_functions run on its own: its argument
  test_function_names   \* ... and the list it returns

\* The variables of a call of collect_test_functions on its own; the testing
\* loop leaves them alone.
parser_vars == << string, test_function_names >>

vars == << pc, n_coverage_attempts, t, target_code, target_dialog, test_code,
           lines, i, dialogs, test_mod_py, sys_modules, raw_missing,
           cov_executed, status, completer_calls, exception, string,
           test_function_names >>

Init ==
  /\ pc = "for_target"
  /\ n_coverage_attempts \in 1..MaxBudget
  /\ t = 0
  /\ target_code = ""
  /\ target_dialog = <<>>
  /\ test_code = EmptyString
  /\ lines = <<>>
  /\ i = 0
  /\ dialogs = <<>>
  /\ test_mod_py = NoFile
  /\ sys_modules = NoModule
  /\ raw_missing = <<>>
  /\ cov_executed = {}
  /\ status = "none"
  /\ completer_calls = 0
  /\ exception = "none"
  /\ string = <<>>
  /\ test_function_names = <<>>

\* A range that yields one value too many.
RangeHasNext_inclusive(j, n) == j <= n

\* for i in range(n): is there a next i?
RangeHasNext(j, n) == j < n

\* A loop without its break.
ShouldBreak_never(ls) == FALSE

\* if len(lines) == 0: break
ShouldBreak(ls) == Len(ls) = 0

\* except SyntaxError:
Caught(exc) == exc = "SyntaxError"

\* The next target function taken without lines 201-202: test_code and
\* lines keep the values the previous target left.
NextTarget_keeping ==
  /\ pc = "for_target"
  /\ t < Len(target_code_examples)
  /\ t' = t + 1
  /\ target_code' = target_code_examples[t + 1]
  /\ target_dialog' = <<>>
  /\ i' = 0
  /\ status' = "running"
  /\ completer_calls' = 0
  /\ pc' = "for_attempt"
  /\ UNCHANGED parser_vars
  /\ UNCHANGED << n_coverage_attempts, dialogs, test_mod_py, sys_modules,
                  raw_missing, cov_executed, exception, test_code, lines >>

\* Lines 198-202: the next target function, with fresh loop variables.
NextTarget ==
  /\ pc = "for_target"
  /\ t < Len(target_code_examples)
  /\ t' = t + 1
  /\ target_code' = target_code_examples[t + 1]
  /\ target_dialog' = <<>>
  /\ test_code' = EmptyString
  /\ lines' = <<>>
  /\ i' = 0
  /\ status' = "running"
  /\ completer_calls' = 0
  /\ pc' = "for_attempt"
  /\ UNCHANGED parser_vars
  /\ UNCHANGED << n_coverage_attempts, dialogs, test_mod_py, sys_modules,
                  raw_missing, cov_executed, exception >>

\* The outer loop is over: the script ends.
Finish ==
  /\ pc = "for_target"
  /\ t = Len(target_code_examples)
  /\ pc' = "done"
  /\ UNCHANGED parser_vars
  /\ UNCHANGED << n_coverage_attempts, t, target_code, target_dialog,
                  test_code, lines, i, dialogs, test_mod_py, sys_modules,
                  raw_missing, cov_executed, status, completer_calls, exception >>

\* Lines 206-213: one more attempt; the prompt, the completer's response
\* and the new entry of the transcript.
Query ==
  /\ pc = "for_attempt"
  /\ RangeHasNext(i, n_coverage_attempts)
  /\ \E response \in Responses(target_code) :
       LET prompt == query(target_code, test_code, lines)
       IN  /\ test_code' = response
           /\ target_dialog' = Append(target_dialog, << target_code, prompt, response >>)
  /\ completer_calls' = completer_calls + 1
  /\ pc' = "analyze"
  /\ UNCHANGED parser_vars
  /\ UNCHANGED << n_coverage_attempts, t, target_code, lines, i, dialogs,
                  test_mod_py, sys_modules, raw_missing, cov_executed, status,
                  exception >>

\* The range is used up: the inner loop ends without a break.
Exhausted ==
  /\ pc = "for_attempt"
  /\ ~ RangeHasNext(i, n_coverage_attempts)
  /\ status' = "budget-exhausted"
  /\ pc' = "append_dialog"
  /\ UNCHANGED parser_vars
  /\ UNCHANGED << n_coverage_attempts, t, target_code, target_dialog,
                  test_code, lines, i, dialogs, test_mod_py, sys_modules,
                  raw_missing, cov_executed, completer_calls, exception >>

\* The call of line 216 in the current state.
Analysis ==
  get_missing_lines_for_completion(target_code, test_code, test_mod_py, sys_modules)

\* What every outcome of line 216 does to the file, the module and the
\* coverage data.
Measured(r) ==
  /\ test_mod_py' = r.file
  /\ sys_modules' = r.modules
  /\ cov_executed' = IF r.analysed THEN r.executed ELSE cov_executed

\* Lines 216-219: the call returns; break when nothing is missing.
AnalyzeReturns ==
  /\ pc = "analyze"
  /\ LET r == Analysis
     IN  /\ r.exc = "none"
         /\ Measured(r)
         /\ raw_missing' = r.missing
         /\ lines' = r.lines
         /\ IF ShouldBreak(r.lines)
            THEN /\ status' = "covered"
                 /\ pc' = "append_dialog"
                 /\ i' = i
            ELSE /\ status' = status
                 /\ pc' = "for_attempt"
                 /\ i' = i + 1
  /\ UNCHANGED parser_vars
  /\ UNCHANGED << n_coverage_attempts, t, target_code, target_dialog,
                  test_code, dialogs, completer_calls, exception >>

\* Lines 220-221: the call raises an exception the except clause catches.
AnalyzeCaught ==
  /\ pc = "analyze"
  /\ LET r == Analysis
     IN  /\ r.exc # "none"
         /\ Caught(r.exc)
         /\ Measured(r)
  /\ test_code' = EmptyString
  /\ i' = i + 1
  /\ pc' = "for_attempt"
  /\ UNCHANGED parser_vars
  /\ UNCHANGED << n_coverage_attempts, t, target_code, target_dialog, lines,
                  dialogs, raw_missing, status, completer_calls, exception >>

\* The call raises an exception no except clause catches: it leaves both
\* loops and ends the script.
AnalyzeRaises ==
  /\ pc = "analyze"
  /\ LET r == Analysis
     IN  /\ r.exc # "none"
         /\ ~ Caught(r.exc)
         /\ Measured(r)
         /\ exception' = r.exc
  /\ pc' = "raised"
  /\ UNCHANGED parser_vars
  /\ UNCHANGED << n_coverage_attempts, t, target_code, target_dialog,
                  test_code, lines, i, dialogs, raw_missing, status,
                  completer_calls >>

\* Line 223: dialogs.append([target_code, target_dialog])
AppendDialog ==
  /\ pc = "append_dialog"
  /\ dialogs' = Append(dialogs, << target_code, target_dialog >>)
  /\ pc' = "for_target"
  /\ UNCHANGED parser_vars
  /\ UNCHANGED << n_coverage_attempts, t, target_code, target_dialog,
                  test_code, lines, i, test_mod_py, sys_modules, raw_missing,
                  cov_executed, status, completer_calls, exception >>

Next ==
  \/ NextTarget
  \/ Finish
  \/ Query
  \/ Exhausted
  \/ AnalyzeReturns
  \/ AnalyzeCaught
  \/ AnalyzeRaises
  \/ AppendDialog

Spec == Init /\ [][Next]_vars

TypeOK ==
  /\ pc \in {"for_target", "for_attempt", "analyze", "append_dialog", "done", "raised"}
  /\ n_coverage_attempts \in 1..MaxBudget
  /\ t \in 0..Len(target_code_examples)
  /\ i \in 0..n_coverage_attempts
  /\ Len(dialogs) <= t
  /\ status \in {"none", "running", "covered", "budget-exhausted"}

----------------------------------------------------------------------------
(* collect_test_functions on its own: one call on a text of at most        *)
(* MaxParseLines lines.                                                    *)

MaxParseLines == 3

\* The lines the texts are made of: declarations of tests (one whose name
\* holds the letters d-e-f, one indented, one with a space before the
\* parenthesis), a declaration that is not a test, and a statement.
ParserLines ==
  { DefLine(<<"test", "_a">>),
    DefLine(<<"test", "_", "def", "ault">>),
    Line(1, <<"def", " ", "test", "_b", "(", ")", ":">>, Op("def")),
    Line(0, <<"def", " ", "test", "_c", " ", "(", ")", ":">>, Op("def")),
    DefLine(<<"helper">>),
    PassLine }

ParserTexts == UNION { [1..n -> ParserLines] : n \in 0..MaxParseLines }

ParseInit ==
  /\ pc = "parse"
  /\ string \in ParserTexts
  /\ test_function_names = <<>>
  /\ n_coverage_attempts = 1
  /\ t = 0
  /\ target_code = ""
  /\ target_dialog = <<>>
  /\ test_code = EmptyString
  /\ lines = <<>>
  /\ i = 0
  /\ dialogs = <<>>
  /\ test_mod_py = NoFile
  /\ sys_modules = NoModule
  /\ raw_missing = <<>>
  /\ cov_executed = {}
  /\ status = "none"
  /\ completer_calls = 0
  /\ exception = "none"

\* Lines 67-83: the call returns the names it collected from string.
CollectCall ==
  /\ pc = "parse"
  /\ test_function_names' = CollectFrom(string)
  /\ pc' = "parsed"
  /\ UNCHANGED << n_coverage_attempts, t, target_code, target_dialog,
                  test_code, lines, i, dialogs, test_mod_py, sys_modules,
                  raw_missing, cov_executed, status, completer_calls,
                  exception, string >>

ParseNext == CollectCall

ParseSpec == ParseInit /\ [][ParseNext]_vars

----------------------------------------------------------------------------
(* Properties.                                                             *)

Last(s) == s[Len(s)]
Range(s) == { s[j] : j \in 1..Len(s) }

\* The attempts of the current target are over.
SessionEnded ==
  t >= 1 /\ pc \in {"append_dialog", "for_target", "done", "raised"}

\* The step that takes the completer's response for a new attempt.
QueryStep == pc = "for_attempt" /\ pc' = "analyze"

\* The positions, in the file, of the lines of the test code and of the
\* run statements.
TestAndRunLines(file) ==
  LET text == FileLines(file)
  IN  { k \in 1..Len(text) : text[k].op.k \notin {"target", "blank"} }

\* The position, in the file, of line j of the target's source.
PositionOfTargetLine(file, j) ==
  LET text == FileLines(file)
  IN  CHOOSE k \in 1..Len(text) :
        /\ text[k].op.f = file.target_code
        /\ text[k].op.k \in {"target", "blank"}
        /\ text[k].op.x = j

\* C1: for every budget, the completer is called at most n_coverage_attempts
\* times for one target, and the loop makes no attempt beyond the budget.
C1_AtMostBudgetCalls ==
  /\ completer_calls <= n_coverage_attempts
  /\ Len(target_dialog) <= n_coverage_attempts
  /\ (pc = "analyze" => i < n_coverage_attempts)

C1_Witness ==
  /\ n_coverage_attempts >= 2
  /\ status = "budget-exhausted"
  /\ completer_calls = n_coverage_attempts

\* C2: every target's attempts end in one of the two final statuses, covered
\* or budget-exhausted, and its transcript is then recorded in dialogs,
\* whatever happened while the composed module was loaded and run.
C2_StatusAndTranscript ==
  (t >= 1 /\ pc \in {"for_target", "done", "raised"}) =>
    /\ status \in {"covered", "budget-exhausted"}
    /\ Len(dialogs) = t
    /\ dialogs[t] = << target_code, target_dialog >>

\* C3: an error raised while the composed module runs, other than an
\* assertion failure in a guarded call, fails the attempt only: the test
\* code is discarded, the loop goes on and the error does not leave it.
C3_ErrorCaughtAtAttempt ==
  [][ (pc = "analyze" /\ Analysis.analysed
         /\ Analysis.exc \notin {"none", "SyntaxError"}) =>
        /\ pc' = "for_attempt"
        /\ test_code' = EmptyString
        /\ i' = i + 1
        /\ exception' = "none" ]_vars

\* C4: a response without a test function does not end the attempts: the
\* test code becomes the empty string, and the next prompt, if there is one,
\* is construct_prompt(target_code), whatever lines holds.
C4_UnparseableResets ==
  [][ /\ (pc = "analyze" /\ collect_test_functions(test_code) = <<>>) =>
           /\ pc' = "for_attempt"
           /\ test_code' = EmptyString
           /\ i' = i + 1
      /\ (QueryStep /\ target_dialog # <<>>
            /\ collect_test_functions(Last(target_dialog)[3]) = <<>>) =>
           Last(target_dialog')[2] = construct_prompt(target_code) ]_vars

C4_Witness ==
  /\ pc = "analyze"
  /\ Len(target_dialog) >= 3
  /\ lines # <<>>
  /\ collect_test_functions(target_dialog[Len(target_dialog) - 1][3]) = <<>>
  /\ Last(target_dialog)[2] = construct_prompt(target_code)

\* C5: a composed module that fails to load, by a syntax error or by an
\* error at import time, is handled like a response without a test
\* function: the test code becomes the empty string and the loop goes on.
C5_LoadErrorResets ==
  [][ (pc = "analyze" /\ Analysis.analysed
         /\ Analysis.exc \in {"SyntaxError", "ImportError"}) =>
        /\ pc' = "for_attempt"
        /\ test_code' = EmptyString
        /\ i' = i + 1
        /\ lines' = lines ]_vars

\* C6: when the filtered list of an attempt is empty the status becomes
\* covered at once, also on the last attempt of the budget, and from then on
\* no call of the completer and no transcript entry is added for the target.
C6_CoveredStops ==
  [][ /\ (pc = "analyze" /\ LET r == Analysis IN r.exc = "none" /\ r.lines = <<>>) =>
           /\ status' = "covered"
           /\ pc' = "append_dialog"
      /\ (status = "covered" /\ t' = t) =>
           /\ status' = "covered"
           /\ completer_calls' = completer_calls
           /\ target_dialog' = target_dialog
           /\ pc' \notin {"for_attempt", "analyze"} ]_vars

C6_Witness ==
  /\ n_coverage_attempts >= 2
  /\ status = "covered"
  /\ completer_calls = n_coverage_attempts
  /\ pc = "for_target"

\* C7: every element of the list an attempt produces is less than the
\* number of lines of the target's source, and none is the number of a line
\* of the test code or of the run statements in the composed module.
C7_OnlyTargetLines ==
  [][ (pc = "analyze" /\ Analysis.exc = "none") =>
        LET added == TestAndRunLines(test_mod_py')
        IN  \A e \in Range(lines') :
              /\ int(e) < Len(Source(target_code))
              /\ int(e) \notin added ]_vars

C7_Witness ==
  /\ pc = "for_attempt"
  /\ test_code # EmptyString
  /\ test_mod_py.response = test_code
  /\ lines # <<>>
  /\ Range(raw_missing) \cap TestAndRunLines(test_mod_py) # {}

\* C8: an attempt is a full-coverage attempt only if every statement line of
\* the target, from its first line to its last, was executed: a statement
\* line that did not run is in the filtered list and the status does not
\* become covered.
C8_CoveredMeansAllExecuted ==
  [][ (pc = "analyze" /\ Analysis.exc = "none") =>
        \A j \in 1..Len(Source(target_code)) :
          (/\ Source(target_code)[j].stmt
           /\ PositionOfTargetLine(test_mod_py', j) \notin cov_executed') =>
             /\ status' # "covered"
             /\ str(PositionOfTargetLine(test_mod_py', j)) \in Range(lines') ]_vars

\* The number, in the source text of some_function, of the statement of the
\* else branch.
ElseBodyLine ==
  CHOOSE j \in 1..Len(some_function) : some_function[j].src = "        z = y + x"

\* C9: for some_function and a test that runs only the x < 0 branch, the
\* list holds the number the else-branch statement has in the target's
\* source text, and the next prompt is the follow-up prompt naming it.
C9_ElseLineReported ==
  [][ /\ (pc = "analyze" /\ test_code = Response("PARTIAL", "some_function")) =>
           str(ElseBodyLine) \in Range(lines')
      /\ (QueryStep /\ test_code = Response("PARTIAL", "some_function")) =>
           /\ Last(target_dialog')[2].template = "coverage for lines"
           /\ str(ElseBodyLine) \in Range(Last(target_dialog')[2].lines) ]_vars

\* C10: the transcript has one entry for each attempt started, and when no
\* attempt reaches full coverage the attempts end budget-exhausted after
\* exactly n_coverage_attempts attempts, the transcript having that length.
C10_TranscriptAndBudget ==
  /\ Len(target_dialog) = completer_calls
  /\ (SessionEnded /\ status # "covered") =>
       /\ status = "budget-exhausted"
       /\ completer_calls = n_coverage_attempts
       /\ Len(target_dialog) = n_coverage_attempts

\* The positions of the lines of ls that start with "def test".
DeclarationLines(ls) ==
  { k \in 1..Len(ls) : StartsWith(LineToks(ls[k]), <<"def", " ", "test">>) }

\* The positions of the lines of ls that start with "def test" once their
\* leading whitespace is trimmed.
TrimmedDeclarationLines(ls) ==
  { k \in 1..Len(ls) : StartsWith(Strip(LineToks(ls[k])), <<"def", " ", "test">>) }

\* C11: on a text without a line that begins with "def test" the parser
\* returns the empty list; on a text with exactly one such line it returns
\* the one-element list of the declared name, the text between "def" and
\* "(" without surrounding whitespace, whatever letters the name holds.
C11_ExactName ==
  pc = "parsed" =>
    /\ (DeclarationLines(string) = {} => test_function_names = <<>>)
    /\ \A k \in DeclarationLines(string) :
         DeclarationLines(string) = {k} =>
           test_function_names = << DeclaredName(string[k].toks) >>

\* C12 as stated: a line counts when it begins with "def test" after its
\* leading whitespace is trimmed; each such line gives one name and the
\* names come in the order of the lines.
C12_TrimmedLinesCollected ==
  pc = "parsed" =>
    LET q == Sorted(TrimmedDeclarationLines(string))
    IN  /\ Len(test_function_names) = Len(q)
        /\ \A k \in 1..Len(q) :
             test_function_names[k] = TestFunctionName(Strip(LineToks(string[q[k]])))

\* C12 as amended: a line counts when it begins with "def test", its
\* leading whitespace included; each such line gives one name and the names
\* come in the order of the lines.
C12_UntrimmedLinesCollected ==
  pc = "parsed" =>
    LET q == Sorted(DeclarationLines(string))
    IN  /\ Len(test_function_names) = Len(q)
        /\ \A k \in 1..Len(q) :
             test_function_names[k] = TestFunctionName(LineToks(string[q[k]]))

C12_Witness ==
  /\ pc = "parsed"
  /\ Len(test_function_names) = 2
  /\ test_function_names[1] # test_function_names[2]
  /\ TrimmedDeclarationLines(string) # DeclarationLines(string)

\* C13: after an attempt with partial coverage the loop keeps that attempt's
\* response and filtered list, and the next prompt is the follow-up prompt
\* built from exactly these; after any other attempt that lets the loop go
\* on the test code is empty; and a prompt is the follow-up form only when
\* built from the response and the list of the attempt just before it.
C13_FollowUpFromLastAttempt ==
  [][ /\ (pc = "analyze" /\ pc' = "for_attempt") =>
           LET r == Analysis
           IN  IF r.exc = "none"
               THEN /\ r.lines # <<>>
                    /\ test_code' = Last(target_dialog)[3]
                    /\ test_code' # EmptyString
                    /\ lines' = r.lines
               ELSE test_code' = EmptyString
      /\ QueryStep =>
           Last(target_dialog')[2] =
             IF target_dialog # <<>> /\ test_code # EmptyString
             THEN construct_prompt_test_code(target_code, Last(target_dialog)[3], lines)
             ELSE construct_prompt(target_code) ]_vars

C13_Witness ==
  /\ pc = "analyze"
  /\ Len(target_dialog) >= 2
  /\ Len(lines) >= 2
  /\ Last(target_dialog)[2].template = "coverage for lines"
  /\ Last(target_dialog)[2].test_code = target_dialog[Len(target_dialog) - 1][3]
  /\ Last(target_dialog)[2].lines = Join(lines)

\* C14: a call of the coverage analyzer does not depend on the calls before
\* it: what an earlier module text left in sys.modules is not visible to the
\* next one, so the call raises, returns and defines what it would with no
\* module loaded.
C14_IndependentCalls ==
  [][ (pc = "analyze" /\ collect_test_functions(test_code) # <<>>) =>
        LET r == Analysis
            fresh == get_missing_lines_for_completion(target_code, test_code,
                                                      test_mod_py, NoModule)
        IN  /\ r.exc = fresh.exc
            /\ r.lines = fresh.lines
            /\ r.executed = fresh.executed
            /\ r.exc = "none" => DOMAIN r.modules.ns = DOMAIN fresh.modules.ns ]_vars

\* The positions of the lines of a given kind in a text.
LinesOfKind(text, kinds) == { k \in 1..Len(text) : text[k].op.k \in kinds }

\* The line of the run statements that calls the test whose body holds
\* line b: the test is the one declared last before b.
InvocationOf(text, b) ==
  LET d == CHOOSE k \in LinesOfKind(text, {"def"}) :
             k < b /\ \A m \in LinesOfKind(text, {"def"}) : m < b => m <= k
      p == { k \in LinesOfKind(text, {"invoke"}) :
               text[k].op.f = DeclaredName(text[d].toks) }
  IN  CHOOSE k \in p : \A m \in p : k <= m

\* C15: the composed module holds the target code, then the test code, then
\* one guarded call for each collected name, in the order collected.  When
\* the assertion of a test fails the guard suppresses it and the calls after
\* it still run; when a test raises another exception the call of
\* get_missing_lines_for_completion raises it and no later call runs.
C15_GuardedCalls ==
  [][ (pc = "analyze" /\ collect_test_functions(test_code) # <<>>) =>
        LET r == Analysis
            text == FileLines(r.file)
            targetLines == { k \in 1..Len(text) : text[k].op.f = target_code
                                                 /\ text[k].op.k \in {"target", "blank"} }
            testLines == LinesOfKind(text, {"def", "call", "assert", "raise",
                                            "pass", "import", "invalid"})
            calls == Sorted(LinesOfKind(text, {"invoke"}))
        IN  /\ \A a \in targetLines, b \in testLines : a < b
            /\ \A b \in testLines, c \in Range(calls) : b < c
            /\ [k \in 1..Len(calls) |-> text[calls[k]].op.f]
                 = collect_test_functions(test_code)
            /\ \A b \in LinesOfKind(text, {"assert"}) \cap r.executed :
                 LET p == InvocationOf(text, b)
                 IN  /\ {p + 1, p + 2} \subseteq r.executed
                     /\ \A c \in Range(calls) : c = p + 5 => c \in r.executed
            /\ \A b \in LinesOfKind(text, {"raise"}) \cap r.executed :
                 LET p == InvocationOf(text, b)
                 IN  /\ r.exc = "ValueError"
                     /\ p + 2 \notin r.executed
                     /\ \A c \in Range(calls) : c > p => c \notin r.executed ]_vars

C15_Witness ==
  /\ status = "covered"
  /\ Len(test_mod_py.names) = 2
  /\ test_mod_py.response = test_code
  /\ LET text == FileLines(test_mod_py)
     IN  /\ LinesOfKind(text, {"assert"}) \cap cov_executed # {}
         /\ LinesOfKind(text, {"invoke"}) \subseteq cov_executed

\* C16: when no test function name is collected from the response, nothing
\* is composed and the coverage analyzer is not called: the attempt leaves
\* test_mod.py, the loaded module, the coverage data and the list lines as
\* they were.
C16_NoNameNoAnalysis ==
  [][ (pc = "analyze" /\ collect_test_functions(test_code) = <<>>) =>
        UNCHANGED << test_mod_py, sys_modules, lines, raw_missing, cov_executed >> ]_vars

C16_Witness ==
  /\ pc = "for_attempt"
  /\ target_dialog # <<>>
  /\ collect_test_functions(Last(target_dialog)[3]) = <<>>
  /\ test_mod_py # NoFile
  /\ sys_modules.loaded
  /\ lines # <<>>

\* C17: the loop never starts an attempt with a non-empty test code and an
\* empty list of lines, and no follow-up prompt of the transcript was built
\* with an empty list.
C17_FollowUpHasLines ==
  /\ (pc = "for_attempt" /\ test_code # EmptyString) => lines # <<>>
  /\ \A k \in 1..Len(target_dialog) :
       target_dialog[k][2].template = "coverage for lines" =>
         target_dialog[k][2].lines # <<>>

C17_Witness ==
  /\ pc = "for_attempt"
  /\ i >= 1
  /\ i < n_coverage_attempts
  /\ test_code # EmptyString
  /\ Len(lines) = 1

\* C18: the attempts of each target start with an empty test code, an empty
\* list of lines, an empty transcript and the attempt counter at zero; the
\* first prompt of a target is construct_prompt of its own code; and a
\* target whose attempts use up the range had n_coverage_attempts attempts.
C18_FreshLoopState ==
  [][ /\ (pc = "for_target" /\ pc' = "for_attempt") =>
           /\ target_code' = target_code_examples[t']
           /\ test_code' = EmptyString
           /\ lines' = <<>>
           /\ target_dialog' = <<>>
           /\ i' = 0
      /\ (QueryStep /\ target_dialog = <<>>) =>
           Last(target_dialog')[2] = construct_prompt(target_code_examples[t])
      /\ (pc = "for_attempt" /\ pc' = "append_dialog") =>
           Len(target_dialog) = n_coverage_attempts ]_vars

C18_Witness ==
  /\ t = 2
  /\ n_coverage_attempts >= 2
  /\ pc = "append_dialog"
  /\ status = "budget-exhausted"
  /\ Len(target_dialog) = n_coverage_attempts
  /\ target_dialog[1][2] = construct_prompt("some_other_function")
  /\ Len(dialogs) = 1
  /\ Len(dialogs[1][2]) = n_coverage_attempts
  /\ Last(dialogs[1][2])[3].kind = "PARTIAL"

====
